---- MODULE Spec2Model ----
(***************************************************************************)
(* A model of predictive-youtube.py: a one-shot script that lists the      *)
(* newest videos of a channel (get_channel_videos), fetches the statistics *)
(* of each listed video (get_video_stats), merges both lists by position,  *)
(* builds a data frame, derives engagement_rate and hands the frame to a   *)
(* linear regression.                                                      *)
(*                                                                         *)
(* Text (API counters, ISO-8601 durations) is a sequence of one-character  *)
(* strings, so that int() and isodate.parse_duration are modelled by what  *)
(* they do to the characters.  A Python dict is a function whose domain is *)
(* the set of keys that are present.                                       *)
(***************************************************************************)
EXTENDS Integers, Sequences, FiniteSets, TLC

VARIABLES
    pc,            \* the statement the script is at, or "done" / "error"
    channel,       \* the platform: how many videos the channel holds
    requests,      \* every API request executed so far, with its outcome
    response,      \* the local `response` of the last request.execute()
    videos,        \* module-level `videos`
    videos_stats,  \* module-level `videos_stats` (grows during line 100)
    df,            \* module-level `df`
    split,         \* the row indices of X_train / X_test
    fitted,        \* whether model.fit has returned
    error          \* the uncaught exception that ended the run, or "none"

vars == <<pc, channel, requests, response, videos, videos_stats, df, split,
          fitted, error>>

-----------------------------------------------------------------------------
(* Bounds of the model                                                     *)

\* the largest channel of the pipeline specification
MaxVideos == 3
\* the largest channel of the listing specification (beyond one page)
MaxChannel == 52
\* the largest counter value of the statistics specification
MaxCount == 9
\* the largest H, M or S component of the statistics specification
MaxComponent == 10

(* Program constants                                                       *)

\* maxResults=50 in the search request
maxResults == 50
\* test_size=0.2 in train_test_split, as the fraction 1 / test_size_inv
test_size_inv == 5

-----------------------------------------------------------------------------
(* Text                                                                    *)

DigitChars == <<"0", "1", "2", "3", "4", "5", "6", "7", "8", "9">>

IsDigit(c) == \E i \in 1..10 : DigitChars[i] = c

DigitValue(c) == (CHOOSE i \in 1..10 : DigitChars[i] = c) - 1

\* How the API writes an unsigned counter or a duration component: decimal.
RECURSIVE Str(_)
Str(n) == IF n < 10 THEN <<DigitChars[n + 1]>>
          ELSE Str(n \div 10) \o <<DigitChars[(n % 10) + 1]>>

\* int(s) of a non-empty string of decimal digits.
RECURSIVE IntOfStr(_)
IntOfStr(s) == IF Len(s) = 0 THEN 0
               ELSE 10 * IntOfStr(SubSeq(s, 1, Len(s) - 1)) + DigitValue(s[Len(s)])

\* int(d.get(key, 0)): the counter's integer value, 0 when the key is absent.
IntGet(d, key) == IF key \in DOMAIN d THEN IntOfStr(d[key]) ELSE 0

\* The number of digit characters s starts with.
RECURSIVE LeadingDigits(_)
LeadingDigits(s) == IF Len(s) = 0 \/ ~IsDigit(s[1]) THEN 0
                    ELSE 1 + LeadingDigits(Tail(s))

\* One optional group of the duration pattern, ([0-9]+<designator>)? :
\* its value and the text left after it (0 and the text itself when it does
\* not match).
TakeComponent(s, designator) ==
    LET k == LeadingDigits(s)
    IN  IF k > 0 /\ Len(s) > k /\ s[k + 1] = designator
        THEN [val |-> IntOfStr(SubSeq(s, 1, k)), rest |-> SubSeq(s, k + 2, Len(s))]
        ELSE [val |-> 0, rest |-> s]

ParseFailed == [ok |-> FALSE, seconds |-> 0]

\* isodate.parse_duration(s).total_seconds() for the week/day/time subset of
\* ISO 8601 with whole-number components: P[nW][nD][T[nH][nM][nS]].  The text
\* must start with P and something must follow the P; anything that does not
\* match raises ISO8601Error (ok = FALSE), the empty string included.
parse_duration(s) ==
    IF Len(s) < 2 \/ s[1] # "P" THEN ParseFailed
    ELSE LET w == TakeComponent(Tail(s), "W")
             d == TakeComponent(w.rest, "D")
             h == TakeComponent(Tail(d.rest), "H")
             m == TakeComponent(h.rest, "M")
             sec == TakeComponent(m.rest, "S")
         IN  IF d.rest = <<>>
             THEN [ok |-> TRUE, seconds |-> (7 * w.val + d.val) * 86400]
             ELSE IF d.rest[1] = "T" /\ sec.rest = <<>>
             THEN [ok |-> TRUE,
                   seconds |-> (7 * w.val + d.val) * 86400 + h.val * 3600
                               + m.val * 60 + sec.val]
             ELSE ParseFailed

-----------------------------------------------------------------------------
(* The platform API, as the script's two requests see it                   *)

Min(a, b) == IF a < b THEN a ELSE b

\* The k-th video uploaded to the channel; publishedAt grows with k.
PlatformItem(k) ==
    [id |-> [videoId |-> k],
     snippet |-> [title |-> <<"title", k>>, publishedAt |-> k]]

\* search().list(part="snippet", channelId, maxResults=limit, order="date")
\* on a channel of n videos: one page, newest first, of at most limit items.
SearchItems(n, limit) ==
    [i \in 1..Min(n, limit) |-> PlatformItem(n - i + 1)]

\* A dict holding exactly the keys of `present`, with the values of `all`.
Dict(all, present) == [k \in present |-> all[k]]

\* One item of a videos().list(part="statistics,contentDetails") response.
DetailItem(statistics, contentDetails) ==
    [statistics |-> statistics, contentDetails |-> contentDetails]

\* How request.execute() ends: it raises HttpError or returns the items.
Raised == [http |-> "HttpError", items |-> <<>>]
Returned(items) == [http |-> "ok", items |-> items]

\* The duration text of a video of h hours, m minutes and s seconds, as the
\* platform writes it; a component of -1 is left out.
DurationText(h, m, s) ==
    <<"P", "T">>
    \o (IF h < 0 THEN <<>> ELSE Str(h) \o <<"H">>)
    \o (IF m < 0 THEN <<>> ELSE Str(m) \o <<"M">>)
    \o (IF s < 0 THEN <<>> ELSE Str(s) \o <<"S">>)

\* The statistics dict of a video; a counter of -1 is absent from the dict.
StatisticsDict(v, l, c) ==
    Dict([viewCount |-> Str(IF v < 0 THEN 0 ELSE v),
          likeCount |-> Str(IF l < 0 THEN 0 ELSE l),
          commentCount |-> Str(IF c < 0 THEN 0 ELSE c)],
         (IF v < 0 THEN {} ELSE {"viewCount"})
         \cup (IF l < 0 THEN {} ELSE {"likeCount"})
         \cup (IF c < 0 THEN {} ELSE {"commentCount"}))

WithDuration(text) == [duration |-> text]
NoDuration == Dict([duration |-> <<>>], {})

\* The outcomes of a detail lookup in the pipeline specification: the three
\* videos of the spec's end-to-end scenario, a video with likes but no views
\* and no duration, a video with an empty duration text, a video that has
\* vanished since the listing, and a failed request.
DetailOutcomes ==
    { Returned(<<DetailItem(StatisticsDict(100, 10, 5), WithDuration(DurationText(-1, 2, 0)))>>),
      Returned(<<DetailItem(StatisticsDict(0, 0, 0), WithDuration(DurationText(-1, -1, 30)))>>),
      Returned(<<DetailItem(StatisticsDict(50, 1, 1), WithDuration(DurationText(-1, 3, 20)))>>),
      Returned(<<DetailItem(StatisticsDict(0, 1, -1), NoDuration)>>),
      Returned(<<DetailItem(StatisticsDict(7, -1, 2), WithDuration(<<>>))>>),
      Returned(<<>>),
      Raised }

-----------------------------------------------------------------------------
(* get_channel_videos and get_video_stats                                  *)

\* The request get_channel_videos builds (lines 39-44).
SearchRequest == [op |-> "search", id |-> 0, maxResults |-> maxResults]

\* The request get_video_stats builds (lines 77-80).
VideosRequest(video_id) == [op |-> "videos", id |-> video_id, maxResults |-> 0]

\* The loop of get_channel_videos over response['items'] (lines 47-56).
video_data(items) ==
    [i \in 1..Len(items) |->
        [video_id |-> items[i].id.videoId,
         title |-> items[i].snippet.title,
         publishedAt |-> items[i].snippet.publishedAt]]

NoStats == [views |-> 0, likes |-> 0, duration |-> 0, comments |-> 0]

\* get_video_stats with a copied line left unedited: 'comments' is read
\* from likeCount.
get_video_stats_comments_from_likes(items) ==
    IF Len(items) = 0
    THEN [exc |-> "IndexError", value |-> NoStats]
    ELSE LET stats == items[1].statistics
             content_details == items[1].contentDetails
             duration_iso == IF "duration" \in DOMAIN content_details
                             THEN content_details["duration"]
                             ELSE <<"P", "T", "0", "S">>
             parsed == parse_duration(duration_iso)
         IN  IF ~parsed.ok
             THEN [exc |-> "ISO8601Error", value |-> NoStats]
             ELSE [exc |-> "none",
                   value |-> [views |-> IntGet(stats, "viewCount"),
                              likes |-> IntGet(stats, "likeCount"),
                              duration |-> parsed.seconds,
                              comments |-> IntGet(stats, "likeCount")]]

\* get_video_stats after request.execute() has returned `items` (lines
\* 83-95): the exception it raises ("none": it returns `value`).
get_video_stats(items) ==
    IF Len(items) = 0
    THEN [exc |-> "IndexError", value |-> NoStats]
    ELSE LET stats == items[1].statistics
             content_details == items[1].contentDetails
             duration_iso == IF "duration" \in DOMAIN content_details
                             THEN content_details["duration"]
                             ELSE <<"P", "T", "0", "S">>
             parsed == parse_duration(duration_iso)
         IN  IF ~parsed.ok
             THEN [exc |-> "ISO8601Error", value |-> NoStats]
             ELSE [exc |-> "none",
                   value |-> [views |-> IntGet(stats, "viewCount"),
                              likes |-> IntGet(stats, "likeCount"),
                              duration |-> parsed.seconds,
                              comments |-> IntGet(stats, "commentCount")]]

-----------------------------------------------------------------------------
(* The script, statement by statement (lines 97-143)                       *)

NoResponse == [op |-> "none", items |-> <<>>]
NoFrame == [built |-> FALSE, columns |-> {}, rows |-> <<>>]
NoSplit == [train |-> {}, test |-> {}]

\* One entry of the request log: the request, how execute() ended, and the
\* items it returned.
Logged(request, outcome) ==
    [op |-> request.op, id |-> request.id, maxResults |-> request.maxResults,
     http |-> outcome.http, items |-> outcome.items]

\* The state in which the script starts line 98, on a channel of n videos.
Start(n) ==
    /\ pc = "search"
    /\ channel = n
    /\ requests = <<>>
    /\ response = NoResponse
    /\ videos = <<>>
    /\ videos_stats = <<>>
    /\ df = NoFrame
    /\ split = NoSplit
    /\ fitted = FALSE
    /\ error = "none"

Init == \E n \in 0..MaxVideos : Start(n)

\* An uncaught exception ends the script.
Raise(exception) ==
    /\ pc' = "error"
    /\ error' = exception

\* A raising execute() that is caught, leaving the statement to run again.
ExecuteRaised_retried == UNCHANGED <<pc, error>>

\* request.execute() raises HttpError (lines 45 and 81): nothing catches it.
ExecuteRaised == Raise("HttpError")

\* get_channel_videos asking for the 100 videos its docstring speaks of.
SearchOk_hundred ==
    /\ pc = "search"
    /\ LET request == [op |-> "search", id |-> 0, maxResults |-> 100]
           outcome == Returned(SearchItems(channel, request.maxResults))
       IN  /\ requests' = Append(requests, Logged(request, outcome))
           /\ response' = [op |-> "search", items |-> outcome.items]
           /\ videos' = video_data(outcome.items)
    /\ pc' = "stats"
    /\ UNCHANGED <<channel, videos_stats, df, split, fitted, error>>

\* Line 98, get_channel_videos: request.execute() returns one page.
SearchOk ==
    /\ pc = "search"
    /\ LET outcome == Returned(SearchItems(channel, SearchRequest.maxResults))
       IN  /\ requests' = Append(requests, Logged(SearchRequest, outcome))
           /\ response' = [op |-> "search", items |-> outcome.items]
           /\ videos' = video_data(outcome.items)
    /\ pc' = "stats"
    /\ UNCHANGED <<channel, videos_stats, df, split, fitted, error>>

\* Line 98, get_channel_videos: request.execute() raises (line 45).
SearchFail ==
    /\ pc = "search"
    /\ requests' = Append(requests, Logged(SearchRequest, Raised))
    /\ ExecuteRaised
    /\ UNCHANGED <<channel, response, videos, videos_stats, df, split, fitted>>

\* Line 100, one iteration of the comprehension: get_video_stats of the next
\* listed video, whose request ends in one of `outcomes`.
FetchStatsFrom(outcomes) ==
    /\ pc = "stats"
    /\ Len(videos_stats) < Len(videos)
    /\ \E outcome \in outcomes :
         LET video == videos[Len(videos_stats) + 1]
             request == VideosRequest(video.video_id)
             result == get_video_stats(outcome.items)
         IN  /\ requests' = Append(requests, Logged(request, outcome))
             /\ IF outcome.http = "HttpError"
                THEN /\ ExecuteRaised
                     /\ UNCHANGED <<response, videos_stats>>
                ELSE /\ response' = [op |-> "videos", items |-> outcome.items]
                     /\ IF result.exc # "none"
                        THEN /\ Raise(result.exc)
                             /\ UNCHANGED videos_stats
                        ELSE /\ videos_stats' = Append(videos_stats, result.value)
                             /\ UNCHANGED <<pc, error>>
    /\ UNCHANGED <<channel, videos, df, split, fitted>>

FetchStats == FetchStatsFrom(DetailOutcomes)

\* Line 100: the comprehension has gone through `videos`.
StatsDone ==
    /\ pc = "stats"
    /\ Len(videos_stats) = Len(videos)
    /\ pc' = "merge"
    /\ UNCHANGED <<channel, requests, response, videos, videos_stats, df,
                   split, fitted, error>>

\* A merge that pairs record i with the stats counted from the other end.
merged_misaligned(vs, stats) ==
    [i \in 1..Len(vs) |-> stats[Len(vs) - i + 1] @@ vs[i]]

\* videos[i].update(videos_stats[i]) for every i (lines 102-103).
merged(vs, stats) == [i \in 1..Len(vs) |-> stats[i] @@ vs[i]]

Merge ==
    /\ pc = "merge"
    /\ videos' = merged(videos, videos_stats)
    /\ pc' = "frame"
    /\ UNCHANGED <<channel, requests, response, videos_stats, df, split,
                   fitted, error>>

\* A frame that is sorted oldest first when it is built.
DataFrame_oldest_first(records) ==
    [built |-> TRUE,
     columns |-> UNION {DOMAIN records[i] : i \in 1..Len(records)},
     rows |-> [i \in 1..Len(records) |-> records[Len(records) - i + 1]]]

\* pd.DataFrame(records): one row per record, in order; the columns are the
\* records' keys, so a frame of no records has no columns (line 105).
DataFrame(records) ==
    [built |-> TRUE,
     columns |-> UNION {DOMAIN records[i] : i \in 1..Len(records)},
     rows |-> records]

BuildFrame ==
    /\ pc = "frame"
    /\ df' = DataFrame(videos)
    /\ pc' = "engagement"
    /\ UNCHANGED <<channel, requests, response, videos, videos_stats, split,
                   fitted, error>>

\* Float division a / b of two non-negative integer columns: x / 0 is inf,
\* 0 / 0 is NaN, and no exception is raised.
TrueDiv(a, b) ==
    IF b # 0 THEN [kind |-> "finite", num |-> a, den |-> b]
    ELSE IF a # 0 THEN [kind |-> "inf", num |-> 1, den |-> 0]
    ELSE [kind |-> "nan", num |-> 0, den |-> 0]

\* df['engagement_rate'] = (df['likes'] + df['comments']) / df['views']
with_engagement_rate(frame) ==
    [built |-> TRUE,
     columns |-> frame.columns \cup {"engagement_rate"},
     rows |-> [i \in 1..Len(frame.rows) |->
                 [engagement_rate |->
                     TrueDiv(frame.rows[i].likes + frame.rows[i].comments,
                             frame.rows[i].views)] @@ frame.rows[i]]]

\* Line 108: df['likes'] raises KeyError on a frame without that column.
Engagement ==
    /\ pc = "engagement"
    /\ IF {"likes", "comments", "views"} \subseteq df.columns
       THEN /\ df' = with_engagement_rate(df)
            /\ pc' = "split"
            /\ UNCHANGED error
       ELSE /\ Raise("KeyError")
            /\ UNCHANGED df
    /\ UNCHANGED <<channel, requests, response, videos, videos_stats, split,
                   fitted>>

\* n_test of train_test_split(test_size=0.2): ceil(n / 5).
n_test(n) == (n + test_size_inv - 1) \div test_size_inv

\* Lines 111-122: scale the features and split the rows; train_test_split
\* raises ValueError when the train set would be empty.  Which rows the
\* seeded shuffle puts in the test set is left open.
Split ==
    /\ pc = "split"
    /\ LET n == Len(df.rows)
       IN  IF n - n_test(n) = 0
           THEN /\ Raise("ValueError")
                /\ UNCHANGED split
           ELSE /\ \E test \in SUBSET (1..n) :
                     /\ Cardinality(test) = n_test(n)
                     /\ split' = [train |-> (1..n) \ test, test |-> test]
                /\ pc' = "fit"
                /\ UNCHANGED error
    /\ UNCHANGED <<channel, requests, response, videos, videos_stats, df,
                   fitted>>

Finite(rows, indices) ==
    \A i \in indices : rows[i].engagement_rate.kind = "finite"

\* Lines 125-126: model.fit validates y_train and raises ValueError on inf
\* or NaN.
Fit ==
    /\ pc = "fit"
    /\ IF Finite(df.rows, split.train)
       THEN /\ fitted' = TRUE
            /\ pc' = "evaluate"
            /\ UNCHANGED error
       ELSE /\ Raise("ValueError")
            /\ UNCHANGED fitted
    /\ UNCHANGED <<channel, requests, response, videos, videos_stats, df,
                   split>>

\* Lines 129-143: predict, score (mean_squared_error raises ValueError on an
\* inf or NaN in y_test), plot and print.
Evaluate ==
    /\ pc = "evaluate"
    /\ IF Finite(df.rows, split.test)
       THEN /\ pc' = "done"
            /\ UNCHANGED error
       ELSE Raise("ValueError")
    /\ UNCHANGED <<channel, requests, response, videos, videos_stats, df,
                   split, fitted>>

Next ==
    \/ SearchOk
    \/ SearchFail
    \/ FetchStats
    \/ StatsDone
    \/ Merge
    \/ BuildFrame
    \/ Engagement
    \/ Split
    \/ Fit
    \/ Evaluate

Spec == Init /\ [][Next]_vars

-----------------------------------------------------------------------------
(* get_channel_videos alone, on channels larger than one page              *)

InitLister == \E n \in 0..MaxChannel : Start(n)

NextLister ==
    \/ SearchOk
    \/ SearchFail

SpecLister == InitLister /\ [][NextLister]_vars

-----------------------------------------------------------------------------
(* get_video_stats alone, on one listed video, over many responses         *)

PT0S == DurationText(-1, -1, 0)

\* Every combination of present and absent counters up to MaxCount, with the
\* duration absent or zero; every combination of present and absent duration
\* components up to MaxComponent; an empty duration text; no item; a failed
\* request.
StatsOutcomes ==
    { Returned(<<DetailItem(StatisticsDict(v, l, c), cd)>>) :
        v \in -1..MaxCount, l \in -1..MaxCount, c \in -1..MaxCount,
        cd \in {NoDuration, WithDuration(PT0S)} }
    \cup { Returned(<<DetailItem(StatisticsDict(4, 2, 1),
                                 WithDuration(DurationText(h, m, s)))>>) :
        h \in -1..MaxComponent, m \in -1..MaxComponent, s \in -1..MaxComponent }
    \cup { Returned(<<DetailItem(StatisticsDict(4, 2, 1), WithDuration(<<>>))>>),
           Returned(<<>>),
           Raised }

\* The script at line 100 after listing a channel of one video.
InitStats ==
    LET listed == SearchItems(1, SearchRequest.maxResults)
    IN  /\ pc = "stats"
        /\ channel = 1
        /\ requests = <<Logged(SearchRequest, Returned(listed))>>
        /\ response = [op |-> "search", items |-> listed]
        /\ videos = video_data(listed)
        /\ videos_stats = <<>>
        /\ df = NoFrame
        /\ split = NoSplit
        /\ fitted = FALSE
        /\ error = "none"

FetchStatsDetail == FetchStatsFrom(StatsOutcomes)

NextStats == FetchStatsDetail

SpecStats == InitStats /\ [][NextStats]_vars

-----------------------------------------------------------------------------
(* What the claims speak of                                                *)

\* The items the search returned (the listing), once it has returned.
Listed == IF requests # <<>> /\ requests[1].http = "ok"
          THEN requests[1].items ELSE <<>>

\* The comprehension of line 100 has gone through the listing.
StatsComplete ==
    \/ pc \in {"merge", "frame", "engagement", "split", "fit", "evaluate", "done"}
    \/ pc = "error" /\ df.built

\* The loop of lines 102-103 has run.
MergeDone ==
    \/ pc \in {"frame", "engagement", "split", "fit", "evaluate", "done"}
    \/ pc = "error" /\ df.built

\* Line 108 has added the engagement_rate column.
HasEngagement == "engagement_rate" \in df.columns

\* The last request was a detail lookup that returned an item.
LookupReturnedItem == response.op = "videos" /\ response.items # <<>>

\* get_video_stats returned a value for the one video of SpecStats.
StatsReturned == error = "none" /\ Len(videos_stats) = 1

\* The columns the script itself creates; any other would be a flag.
SourceColumns == {"video_id", "title", "publishedAt", "views", "likes",
                  "duration", "comments", "engagement_rate"}

-----------------------------------------------------------------------------
(* C1: if the detail lookup of a listed video returns an empty item list,  *)
(* the video is skipped and the run continues: the run does not end in an  *)
(* error at that lookup.                                                   *)
C1_VideoNotFoundSkipped ==
    (response.op = "videos" /\ response.items = <<>>) => pc # "error"

(* C2: when the model-fitting step is entered, every row with views = 0    *)
(* has been excluded from the dataset or explicitly flagged, so no         *)
(* unflagged non-finite engagement_rate reaches the regression.            *)
C2_ZeroViewsHandledBeforeFit ==
    pc = "fit" =>
        \A i \in 1..Len(df.rows) :
            df.rows[i].views = 0 => (DOMAIN df.rows[i]) \ SourceColumns # {}

(* C3: when the channel listing returns zero items, the run raises no      *)
(* error: it ends in a state in which model fitting was skipped.           *)
C3_EmptyListingNoError ==
    (requests # <<>> /\ requests[1].http = "ok" /\ Listed = <<>>) =>
        /\ error = "none"
        /\ ~fitted

CounterRead(stats, key, value) ==
    IF key \in DOMAIN stats
    THEN \E n \in 0..MaxCount : stats[key] = Str(n) /\ value = n
    ELSE value = 0

(* C5: for every detail response that contains an item, each of views,     *)
(* likes and comments is the integer value of its counter when present and *)
(* 0 when absent, the duration is 0 when the duration field is absent, and *)
(* an absent counter or duration never produces an error.                  *)
C5_AbsentFieldsDefaultToZero ==
    LookupReturnedItem =>
        LET stats == response.items[1].statistics
            content_details == response.items[1].contentDetails
        IN  /\ error # "none" => "duration" \in DOMAIN content_details
            /\ error = "none" =>
                 /\ Len(videos_stats) = 1
                 /\ DOMAIN videos_stats[1] = {"views", "likes", "duration", "comments"}
                 /\ CounterRead(stats, "viewCount", videos_stats[1].views)
                 /\ CounterRead(stats, "likeCount", videos_stats[1].likes)
                 /\ CounterRead(stats, "commentCount", videos_stats[1].comments)
                 /\ "duration" \notin DOMAIN content_details =>
                        videos_stats[1].duration = 0

\* C5's case: views present, comments and duration absent, a value returned.
C5_Witness ==
    /\ LookupReturnedItem
    /\ StatsReturned
    /\ DOMAIN response.items[1].statistics = {"viewCount", "likeCount"}
    /\ DOMAIN response.items[1].contentDetails = {}
    /\ videos_stats[1] = [views |-> 7, likes |-> 3, duration |-> 0, comments |-> 0]

\* The listing positions whose video has no row although it was listed, and
\* whose fetched views are 0: the rows a zero-views policy has excluded.
ExcludedZeroViews ==
    {i \in 1..Len(Listed) :
        /\ videos_stats[i].views = 0
        /\ \A j \in 1..Len(df.rows) : df.rows[j].video_id # Listed[i].id.videoId}

\* The position in the listing of the video of row j.
ListedAt(j) ==
    CHOOSE i \in 1..Len(Listed) : Listed[i].id.videoId = df.rows[j].video_id

(* C6: the assembled dataset has as many rows as there are listed videos   *)
(* minus the rows excluded for zero views, and its rows are listed videos  *)
(* in the relative order of the listing.                                   *)
C6_RowsFollowListing ==
    df.built =>
        /\ Len(df.rows) = Len(Listed) - Cardinality(ExcludedZeroViews)
        /\ \A j \in 1..Len(df.rows) :
              \E i \in 1..Len(Listed) : Listed[i].id.videoId = df.rows[j].video_id
        /\ \A j \in 1..Len(df.rows) : \A k \in 1..Len(df.rows) :
              j < k => ListedAt(j) < ListedAt(k)

\* C6's case: a frame built from a listing of three videos, one without views.
C6_Witness ==
    /\ df.built
    /\ Len(Listed) = 3
    /\ Len(df.rows) = 3
    /\ df.rows[2].views = 0
    /\ df.rows[1].views > 0

\* The statistics of the spec's end-to-end scenario.
ScenarioStats ==
    <<[views |-> 100, likes |-> 10, duration |-> 120, comments |-> 5],
      [views |-> 0, likes |-> 0, duration |-> 30, comments |-> 0],
      [views |-> 50, likes |-> 1, duration |-> 200, comments |-> 1]>>

(* C7: every row of the dataset has views > 0 and engagement_rate * views  *)
(* = likes + comments; for the scenario (100,10,5), (0,0,0), (50,1,1) the  *)
(* dataset holds exactly 2 rows, with rates 15/100 and 2/50.               *)
C7_EngagementRatePerRow ==
    HasEngagement =>
        /\ \A i \in 1..Len(df.rows) :
              LET row == df.rows[i]
              IN  /\ row.views > 0
                  /\ row.engagement_rate.kind = "finite"
                  /\ row.engagement_rate.num * row.views
                         = (row.likes + row.comments) * row.engagement_rate.den
        /\ videos_stats = ScenarioStats =>
              /\ Len(df.rows) = 2
              /\ df.rows[1].engagement_rate.num * 100
                     = 15 * df.rows[1].engagement_rate.den
              /\ df.rows[2].engagement_rate.num * 50
                     = 2 * df.rows[2].engagement_rate.den

(* C8: for every duration text PT[nH][nM][nS] the duration returned by     *)
(* get_video_stats is H*3600 + M*60 + S seconds, and both an absent and an *)
(* empty duration field give 0 seconds.                                    *)
C8_DurationSeconds ==
    LookupReturnedItem =>
        LET content_details == response.items[1].contentDetails
            Seconds(x, unit) == IF x < 0 THEN 0 ELSE x * unit
        IN  /\ "duration" \notin DOMAIN content_details =>
                 StatsReturned /\ videos_stats[1].duration = 0
            /\ "duration" \in DOMAIN content_details =>
                 /\ content_details["duration"] = <<>> =>
                       StatsReturned /\ videos_stats[1].duration = 0
                 /\ \A h \in -1..MaxComponent : \A m \in -1..MaxComponent :
                    \A s \in -1..MaxComponent :
                       content_details["duration"] = DurationText(h, m, s) =>
                          /\ StatsReturned
                          /\ videos_stats[1].duration
                                 = Seconds(h, 3600) + Seconds(m, 60) + Seconds(s, 1)

\* The part of C8 the code meets: the same, for present duration texts of
\* the form PT[nH][nM][nS] and for an absent duration field.
DurationSecondsOfWellFormed ==
    LookupReturnedItem =>
        LET content_details == response.items[1].contentDetails
            Seconds(x, unit) == IF x < 0 THEN 0 ELSE x * unit
        IN  /\ "duration" \notin DOMAIN content_details =>
                 StatsReturned /\ videos_stats[1].duration = 0
            /\ "duration" \in DOMAIN content_details =>
                 \A h \in -1..MaxComponent : \A m \in -1..MaxComponent :
                 \A s \in -1..MaxComponent :
                    content_details["duration"] = DurationText(h, m, s) =>
                       /\ StatsReturned
                       /\ videos_stats[1].duration
                              = Seconds(h, 3600) + Seconds(m, 60) + Seconds(s, 1)

(* C9: a request that fails with HttpError is the last request of the run: *)
(* it is not retried and not caught, the run is in its error state and     *)
(* takes no further step, and neither the dataset is assembled nor the     *)
(* model fitted.                                                           *)
C9_ApiErrorEndsRun ==
    \A i \in 1..Len(requests) :
        requests[i].http = "HttpError" =>
            /\ i = Len(requests)
            /\ pc = "error"
            /\ error = "HttpError"
            /\ ~ENABLED Next
            /\ ~df.built
            /\ ~fitted

\* C9's case: the lookup of the third listed video failed.
C9_Witness ==
    /\ Len(requests) = 4
    /\ requests[4].http = "HttpError"
    /\ requests[4].op = "videos"
    /\ Len(videos_stats) = 2

(* C10: the request log is the search followed by the lookups of the       *)
(* listed videos, one each, in listing order, each issued after the one    *)
(* before it has returned its statistics; at the merge step there is one   *)
(* lookup and one stats entry per listed video, and the stats merged into  *)
(* record i are those of the lookup made with record i's video_id.         *)
C10_LookupsInListingOrder ==
    /\ requests # <<>> => requests[1].op = "search"
    /\ \A i \in 2..Len(requests) :
          /\ requests[i].op = "videos"
          /\ i - 1 <= Len(Listed)
          /\ requests[i].id = Listed[i - 1].id.videoId
    /\ \A i \in 2..(Len(requests) - 1) :
          /\ requests[i].http = "ok"
          /\ get_video_stats(requests[i].items).exc = "none"
    /\ StatsComplete =>
          /\ Len(requests) = Len(Listed) + 1
          /\ Len(videos_stats) = Len(Listed)
          /\ Len(videos) = Len(Listed)
    /\ MergeDone =>
          \A i \in 1..Len(videos) :
             LET returned == get_video_stats(requests[i + 1].items).value
             IN  /\ requests[i + 1].id = videos[i].video_id
                 /\ videos[i].video_id = Listed[i].id.videoId
                 /\ videos[i].views = returned.views
                 /\ videos[i].likes = returned.likes
                 /\ videos[i].duration = returned.duration
                 /\ videos[i].comments = returned.comments

\* C10's case: three listed videos with different statistics, merged.
C10_Witness ==
    /\ pc = "frame"
    /\ Len(videos) = 3
    /\ videos[1].views # videos[2].views
    /\ videos[2].views # videos[3].views
    /\ videos[1].views # videos[3].views

====
